---- MODULE Spec2Model ----
(***************************************************************************)
(* Model of battery_test.py: the orchestrator loop, charge_cycle and       *)
(* discharge_cycle, driving the DP8xx power supply (relay channel CH1,     *)
(* charge channel CH2) and the SDL1030X electronic load.                   *)
(*                                                                         *)
(* Time is counted in whole seconds.  The durations the script fixes at    *)
(* 20 samples, 60 s, 120 s, 300 s and 3 hours are scaled down to the       *)
(* definitions listed under "Scaled durations"; every property below is    *)
(* stated in terms of those names and not of their values.                 *)
(*                                                                         *)
(* The program reads time.time() only to take differences between two      *)
(* readings made inside one call of charge_cycle or discharge_cycle, so    *)
(* the origin of the clock is immaterial: the model moves it to the moment *)
(* of each call, which keeps the two cycles' state spaces from multiplying.*)
(* For the same reason the model follows the destination file only while  *)
(* the call that writes it is active: nothing touches it afterwards.      *)
(***************************************************************************)
EXTENDS Integers, Sequences, FiniteSets, TLC

\* ---------------------------------------------------------------- bounds
\* Scaled durations (battery_test.py value in parentheses).
pulse_spacing == 3              \* (120 s)  line 31
rest_charge_to_discharge == 1   \* (300 s)  line 33
rest_discharge_to_charge == 1   \* (300 s)  line 34
num_samples_required == 3       \* (20)     line 264
save_interval == 3              \* (60 s)   lines 130, 258
charge_timeout == 4             \* (3*3600 s) line 125
\* Bounds of the environment.
MaxSamples == 5                 \* samples one discharge cycle may collect

\* ------------------------------------------------------ program constants
pulse_settle_time == 2
number_of_cycles == 2
relay_voltage == 12
relay_current == 1
\* Battery parameters (module spec_velo2_4v35, imported as spec), in
\* abstract units of current and voltage.
charge_voltage == 4
charge_current == 2
charge_termination_current == 1
discharge_current == 2
discharge_termination_voltage == 3
pulse_discharge_current == 2 * discharge_current

\* Values the instruments may report.
ChargeVoltages == {4}
ChargeCurrents == {0, 1, 2}
LoadVoltages == {2, 4}
LoadCurrents == {1, 2}
PulseCurrents == {2, 4}
\* Seconds an instrument query may take.
Latencies == {0, 2}

VARIABLES
    opc,              \* position of the orchestrator (module level code)
    cycle,            \* the for loop's variable
    phases,           \* history: phases started and their results, in order
    pc,               \* position inside charge_cycle / discharge_cycle
    clock,            \* time.time(), counted from the current call
    ch1_out, ch1_voltage, ch1_current,   \* PSU channel 1 (relay)
    ch2_out, ch2_voltage, ch2_current,   \* PSU channel 2 (charger)
    load_on, load_current,               \* electronic load input, setpoint
    failed,           \* local `failed`
    locals_bound,     \* charge_cycle: lines 80-86 have run (samples etc. exist)
    start_time, last_sample_time, last_save_time, last_pulse_time,
    samples, estimated_charge,
    integrated,       \* history: <<current, dt>> of every term added to
                      \* estimated_charge, one entry per sample
    load_writes,      \* history: the commands the current discharge_cycle
                      \* call has written to the load, in order
    voltage, current, \* last plain measurement
    file,             \* the destination file of the current controller call
    outcome,          \* which termination message the loop printed
    pending,          \* exception waiting for the finally block to finish
    escaped,          \* exception that left the controller / the program
    faults,           \* history: the positions at which an instrument call
                      \* raised during the current call (or the final shutdown)
    interrupt_at      \* history: the position at which the operator interrupted

psu == <<ch1_out, ch1_voltage, ch1_current, ch2_out, ch2_voltage, ch2_current>>
load == <<load_on, load_current>>
orch == <<opc, cycle, phases>>
times == <<start_time, last_sample_time, last_save_time, last_pulse_time>>
meas == <<voltage, current>>
exc == <<pending, escaped, faults, interrupt_at>>
vars == <<opc, cycle, phases, pc, clock, psu, load, failed, locals_bound,
          times, samples, estimated_charge, integrated, load_writes, meas, file, outcome, exc>>

\* ------------------------------------------------------------ log_to_file
NoFile == [written |-> FALSE, header |-> <<>>, rows |-> <<>>]

ChargeFields == <<"time", "voltage", "current", "charge", "status">>
DischargeFields == <<"time", "voltage", "current", "charge", "resistance", "status">>

\* fieldnames = samples[0].keys()
fieldnames(smp) ==
    IF "resistance" \in DOMAIN smp[1] THEN DischargeFields ELSE ChargeFields

\* writer.writerow(sample): the sample's values in header order
writerow(fields, sample) == [k \in 1..Len(fields) |-> sample[fields[k]]]

\* log_to_file raises IndexError on an empty list (samples[0])
log_raises(smp) == Len(smp) = 0

log_to_file(smp) ==
    [written |-> TRUE,
     header |-> fieldnames(smp),
     rows |-> [k \in 1..Len(smp) |-> writerow(fieldnames(smp), smp[k])]]

\* ------------------------------------------------------------------ Init
Init ==
    /\ opc = "o_for" /\ cycle = 1 /\ phases = <<>>
    /\ pc = "idle" /\ clock = 0
    /\ ch1_out = FALSE /\ ch1_voltage = 0 /\ ch1_current = 0
    /\ ch2_out = FALSE /\ ch2_voltage = 0 /\ ch2_current = 0
    /\ load_on = FALSE /\ load_current = 0
    /\ failed = FALSE /\ locals_bound = FALSE
    /\ start_time = 0 /\ last_sample_time = 0
    /\ last_save_time = 0 /\ last_pulse_time = 0
    /\ samples = <<>> /\ estimated_charge = 0 /\ integrated = <<>>
    /\ load_writes = <<>>
    /\ voltage = 0 /\ current = 0
    /\ file = NoFile /\ outcome = "none"
    /\ pending = "none" /\ escaped = "none"
    /\ faults = <<>> /\ interrupt_at = "none"

\* The end of a finally block: the function returns (lines 164 / 291), or
\* the exception the finally block interrupted is raised again.
LeaveFinally ==
    IF pending = "none"
      THEN pc' = "ret" /\ UNCHANGED <<escaped, pending>>
      ELSE pc' = "raised" /\ escaped' = pending /\ pending' = "none"

\* ------------------------------------------------------------ charge_cycle
ChargeTry == {"c72", "c73", "c74", "c75", "c77", "c78", "c79", "c80",
              "c95", "c120", "c130", "c136", "c141", "c143"}
ChargeFinally == {"c153", "c155", "c158"}
ChargeLoop == {"c95", "c120", "c130", "c136"}

\* line 72: psu.CH1.set_voltage(12)
c72 ==
    /\ pc = "c72"
    /\ ch1_voltage' = relay_voltage
    /\ pc' = "c73"
    /\ UNCHANGED <<orch, clock, ch1_out, ch1_current, ch2_out, ch2_voltage,
                   ch2_current, load, failed, locals_bound, times, samples,
                   estimated_charge, integrated, load_writes, meas, file, outcome, exc>>

\* line 73: psu.CH1.set_current(1)
c73 ==
    /\ pc = "c73"
    /\ ch1_current' = relay_current
    /\ pc' = "c74"
    /\ UNCHANGED <<orch, clock, ch1_out, ch1_voltage, ch2_out, ch2_voltage,
                   ch2_current, load, failed, locals_bound, times, samples,
                   estimated_charge, integrated, load_writes, meas, file, outcome, exc>>

\* line 74: psu.CH2.set_voltage(spec.charge_voltage)
c74 ==
    /\ pc = "c74"
    /\ ch2_voltage' = charge_voltage
    /\ pc' = "c75"
    /\ UNCHANGED <<orch, clock, ch1_out, ch1_voltage, ch1_current, ch2_out,
                   ch2_current, load, failed, locals_bound, times, samples,
                   estimated_charge, integrated, load_writes, meas, file, outcome, exc>>

\* line 75: psu.CH2.set_current(spec.charge_current)
c75 ==
    /\ pc = "c75"
    /\ ch2_current' = charge_current
    /\ pc' = "c77"
    /\ UNCHANGED <<orch, clock, ch1_out, ch1_voltage, ch1_current, ch2_out,
                   ch2_voltage, load, failed, locals_bound, times, samples,
                   estimated_charge, integrated, load_writes, meas, file, outcome, exc>>

\* line 77: psu.CH1.set_output(True)
c77 ==
    /\ pc = "c77"
    /\ ch1_out' = TRUE
    /\ pc' = "c78"
    /\ UNCHANGED <<orch, clock, ch1_voltage, ch1_current, ch2_out, ch2_voltage,
                   ch2_current, load, failed, locals_bound, times, samples,
                   estimated_charge, integrated, load_writes, meas, file, outcome, exc>>

\* line 78: time.sleep(1)
c78 ==
    /\ pc = "c78"
    /\ clock' = clock + 1
    /\ pc' = "c79"
    /\ UNCHANGED <<orch, psu, load, failed, locals_bound, times, samples,
                   estimated_charge, integrated, load_writes, meas, file, outcome, exc>>

\* line 79: psu.CH2.set_output(True)
c79 ==
    /\ pc = "c79"
    /\ ch2_out' = TRUE
    /\ pc' = "c80"
    /\ UNCHANGED <<orch, clock, ch1_out, ch1_voltage, ch1_current, ch2_voltage,
                   ch2_current, load, failed, locals_bound, times, samples,
                   estimated_charge, integrated, load_writes, meas, file, outcome, exc>>

\* lines 80-91: start_time, samples, markers, accumulator; time.sleep(1)
c80 ==
    /\ pc = "c80"
    /\ start_time' = clock
    /\ samples' = <<>>
    /\ last_save_time' = clock
    /\ last_sample_time' = clock
    /\ estimated_charge' = 0 /\ integrated' = <<>>
    /\ locals_bound' = TRUE
    /\ clock' = clock + 1
    /\ pc' = "c95"
    /\ UNCHANGED <<orch, psu, load, failed, last_pulse_time, load_writes,
                   meas, file, outcome, exc>>

\* variant of AddCharge: one second is assumed for every interval
AddCharge_PerSecond(q, i, dt) == q + i

\* lines 103, 214, 232: estimated_charge += current * dt
AddCharge(q, i, dt) == q + i * dt

\* the sample charge_cycle appends (lines 105-111)
ChargeSample(now, v, i, q) ==
    [time |-> now - start_time, voltage |-> v, current |-> i, charge |-> q,
     status |-> "charging"]

\* lines 95-112: one measurement; measure_all takes d seconds
c95 ==
    /\ pc = "c95"
    /\ \E d \in Latencies, v \in ChargeVoltages, i \in ChargeCurrents :
         LET now == clock
             dt == now - last_sample_time
             q == AddCharge(estimated_charge, i, dt)
         IN /\ last_sample_time' = now
            /\ clock' = clock + d
            /\ voltage' = v
            /\ current' = i
            /\ estimated_charge' = q
            /\ integrated' = Append(integrated, <<i, dt>>)
            /\ samples' = Append(samples, ChargeSample(now, v, i, q))
    /\ pc' = "c120"
    /\ UNCHANGED <<orch, psu, load, failed, locals_bound, start_time,
                   last_save_time, last_pulse_time, load_writes, file,
                   outcome, exc>>

\* variant of ChargeCutoff: the comparison admits the cutoff value itself
ChargeCutoff_Le == current <= charge_termination_current

\* line 120: current < spec.charge_termination_current
ChargeCutoff == current < charge_termination_current

\* variant of ChargeTimedOut: the ceiling itself already counts as exceeded
ChargeTimedOut_Ge == clock - start_time >= charge_timeout

\* line 125: time.time() - start_time > 3 * 3600
ChargeTimedOut == clock - start_time > charge_timeout

\* variant of c120: the ceiling is handled as a failure of the cycle
c120_TimeoutFails ==
    /\ pc = "c120"
    /\ IF ChargeCutoff
         THEN outcome' = "cutoff_current" /\ pc' = "c141" /\ failed' = failed
         ELSE IF ChargeTimedOut
                THEN outcome' = "timeout" /\ pc' = "c153" /\ failed' = TRUE
                ELSE outcome' = outcome /\ pc' = "c130" /\ failed' = failed
    /\ UNCHANGED <<orch, clock, psu, load, locals_bound, times,
                   samples, estimated_charge, integrated, load_writes, meas, file, exc>>

\* lines 119-127: the two termination tests, in source order
c120 ==
    /\ pc = "c120"
    /\ IF ChargeCutoff
         THEN outcome' = "cutoff_current" /\ pc' = "c141"
         ELSE IF ChargeTimedOut
                THEN outcome' = "timeout" /\ pc' = "c141"
                ELSE outcome' = outcome /\ pc' = "c130"
    /\ UNCHANGED <<orch, clock, psu, load, failed, locals_bound, times,
                   samples, estimated_charge, integrated, load_writes, meas, file, exc>>

\* variant of SaveDue: the file is rewritten half as often
SaveDue_Late == clock - last_save_time > 2 * save_interval

\* lines 130, 258: time.time() - last_save_time > 60
SaveDue == clock - last_save_time > save_interval

\* lines 130-132: periodic save
c130 ==
    /\ pc = "c130"
    /\ IF SaveDue
         THEN file' = log_to_file(samples) /\ last_save_time' = clock
         ELSE UNCHANGED <<file, last_save_time>>
    /\ pc' = "c136"
    /\ UNCHANGED <<orch, clock, psu, load, failed, locals_bound, start_time,
                   last_sample_time, last_pulse_time, samples,
                   estimated_charge, integrated, load_writes, meas, outcome, exc>>

\* lines 136 / 270: delay = 1 - (time.time() - last_sample_time)
delay == 1 - (clock - last_sample_time)

\* variant of SleepDelay: a full second after every iteration
SleepDelay_Fixed == clock + 1

\* lines 137-138 / 271-272: if delay > 0: time.sleep(delay)
SleepDelay == IF delay > 0 THEN clock + delay ELSE clock

c136 ==
    /\ pc = "c136"
    /\ clock' = SleepDelay
    /\ pc' = "c95"
    /\ UNCHANGED <<orch, psu, load, failed, locals_bound, times, samples,
                   estimated_charge, integrated, load_writes, meas, file, outcome, exc>>

\* line 141: psu.CH1.set_output(False)
c141 ==
    /\ pc = "c141"
    /\ ch1_out' = FALSE
    /\ pc' = "c143"
    /\ UNCHANGED <<orch, clock, ch1_voltage, ch1_current, ch2_out, ch2_voltage,
                   ch2_current, load, failed, locals_bound, times, samples,
                   estimated_charge, integrated, load_writes, meas, file, outcome, exc>>

\* line 143: psu.CH2.set_current(0); the try block ends, finally follows
c143 ==
    /\ pc = "c143"
    /\ ch2_current' = 0
    /\ pc' = "c153"
    /\ UNCHANGED <<orch, clock, ch1_out, ch1_voltage, ch1_current, ch2_out,
                   ch2_voltage, load, failed, locals_bound, times, samples,
                   estimated_charge, integrated, load_writes, meas, file, outcome, exc>>

\* line 153 (finally): psu.CH1.set_output(False)
c153 ==
    /\ pc = "c153"
    /\ ch1_out' = FALSE
    /\ pc' = "c155"
    /\ UNCHANGED <<orch, clock, ch1_voltage, ch1_current, ch2_out, ch2_voltage,
                   ch2_current, load, failed, locals_bound, times, samples,
                   estimated_charge, integrated, load_writes, meas, file, outcome, exc>>

\* line 155 (finally): psu.CH2.set_current(0)
c155 ==
    /\ pc = "c155"
    /\ ch2_current' = 0
    /\ pc' = "c158"
    /\ UNCHANGED <<orch, clock, ch1_out, ch1_voltage, ch1_current, ch2_out,
                   ch2_voltage, load, failed, locals_bound, times, samples,
                   estimated_charge, integrated, load_writes, meas, file, outcome, exc>>

\* line 158 (finally): log_to_file(samples, fname).  `samples` is unbound
\* when the try block raised before line 83 (UnboundLocalError); an empty
\* list raises IndexError in log_to_file.  Either exception leaves the
\* function from inside the finally block.
c158 ==
    /\ pc = "c158"
    /\ IF ~locals_bound
         THEN /\ escaped' = "UnboundLocalError"
              /\ pending' = "none"
              /\ pc' = "raised"
              /\ UNCHANGED file
         ELSE IF log_raises(samples)
                THEN /\ escaped' = "IndexError"
                     /\ pending' = "none"
                     /\ pc' = "raised"
                     /\ UNCHANGED file
                ELSE /\ file' = log_to_file(samples)
                     /\ LeaveFinally
    /\ UNCHANGED <<orch, clock, psu, load, failed, locals_bound, times,
                   samples, estimated_charge, integrated, load_writes, meas, outcome, faults,
                   interrupt_at>>

charge_cycle ==
    \/ c72 \/ c73 \/ c74 \/ c75 \/ c77 \/ c78 \/ c79 \/ c80
    \/ c95 \/ c120 \/ c130 \/ c136 \/ c141 \/ c143
    \/ c153 \/ c155 \/ c158

\* --------------------------------------------------------- discharge_cycle
DischargeTry == {"d185", "d186", "d187", "d192", "d217", "d222", "d225",
                 "d228", "d251", "d258", "d265", "d270"}
DischargeFinally == {"d280", "d288"}
DischargeLoop == {"d192", "d217", "d222", "d225", "d228", "d251", "d258",
                  "d265", "d270"}

\* line 185: load.set_source_current(spec.discharge_current)
d185 ==
    /\ pc = "d185"
    /\ load_current' = discharge_current
    /\ load_writes' = Append(load_writes, "set_source_current")
    /\ pc' = "d186"
    /\ UNCHANGED <<orch, clock, psu, load_on, failed, locals_bound, times,
                   samples, estimated_charge, integrated, meas, file, outcome,
                   exc>>

\* line 186: load.set_source_state(True)
d186 ==
    /\ pc = "d186"
    /\ load_on' = TRUE
    /\ load_writes' = Append(load_writes, "set_source_state(True)")
    /\ pc' = "d187"
    /\ UNCHANGED <<orch, clock, psu, load_current, failed, locals_bound, times,
                   samples, estimated_charge, integrated, meas, file, outcome,
                   exc>>

\* line 187: time.sleep(1)
d187 ==
    /\ pc = "d187"
    /\ clock' = clock + 1
    /\ pc' = "d192"
    /\ UNCHANGED <<orch, psu, load, failed, locals_bound, times, samples,
                   estimated_charge, integrated, load_writes, meas, file, outcome, exc>>

\* the plain sample discharge_cycle appends (lines 197-204); q is the
\* accumulator before line 214 adds this sample's share
DischargeSample(now, v, i, q) ==
    [time |-> now - start_time, voltage |-> v, current |-> i, charge |-> q,
     resistance |-> "-", status |-> "discharge"]

\* line 196: load.measure_current() at the nominal setpoint.  The load
\* regulates the current, so its readback is steady: it may be off the
\* configured value, by the same amount throughout one discharge.
NominalReadings == IF samples = <<>> THEN LoadCurrents ELSE {current}

\* lines 192-214: one plain measurement; the two queries take d seconds
d192 ==
    /\ pc = "d192"
    /\ Len(samples) < MaxSamples
    /\ \E d \in Latencies, v \in LoadVoltages, i \in NominalReadings :
         LET now == clock
             dt == now - last_sample_time
         IN /\ last_sample_time' = now
            /\ clock' = clock + d
            /\ voltage' = v
            /\ current' = i
            /\ samples' = Append(samples,
                                 DischargeSample(now, v, i, estimated_charge))
            /\ estimated_charge' = AddCharge(estimated_charge, i, dt)
            /\ integrated' = Append(integrated, <<i, dt>>)
    /\ pc' = "d217"
    /\ UNCHANGED <<orch, psu, load, failed, locals_bound, start_time,
                   last_save_time, last_pulse_time, load_writes, file,
                   outcome, exc>>

\* line 217: time.time() - last_pulse_time > pulse_spacing
PulseDue == clock - last_pulse_time > pulse_spacing

\* lines 217-218
d217 ==
    /\ pc = "d217"
    /\ IF PulseDue
         THEN last_pulse_time' = clock /\ pc' = "d222"
         ELSE last_pulse_time' = last_pulse_time /\ pc' = "d258"
    /\ UNCHANGED <<orch, clock, psu, load, failed, locals_bound, start_time,
                   last_sample_time, last_save_time, samples,
                   estimated_charge, integrated, load_writes, meas, file, outcome, exc>>

\* line 222: load.set_source_current(pulse_discharge_current)
d222 ==
    /\ pc = "d222"
    /\ load_current' = pulse_discharge_current
    /\ load_writes' = Append(load_writes, "set_source_current")
    /\ pc' = "d225"
    /\ UNCHANGED <<orch, clock, psu, load_on, failed, locals_bound, times,
                   samples, estimated_charge, integrated, meas, file, outcome,
                   exc>>

\* line 225: time.sleep(pulse_settle_time)
d225 ==
    /\ pc = "d225"
    /\ clock' = clock + pulse_settle_time
    /\ pc' = "d228"
    /\ UNCHANGED <<orch, psu, load, failed, locals_bound, times, samples,
                   estimated_charge, integrated, load_writes, meas, file, outcome, exc>>

\* line 238: the quotient, kept exact as <<numerator, denominator>>
Resistance(v, pv, pi) == <<v - pv, pi - discharge_current>>

\* line 238 raises ZeroDivisionError
ResistanceRaises(pi) == pi - discharge_current = 0

\* the pulse sample (lines 240-247)
PulseSample(pv, pi, q, r) ==
    [time |-> last_sample_time - start_time, voltage |-> pv, current |-> pi,
     charge |-> q, resistance |-> r, status |-> "discharge_pulse"]

\* lines 228-248: pulse measurement, charge for the pulse, resistance, append.
\* A zero denominator raises inside the try block: except clause, finally.
d228 ==
    /\ pc = "d228"
    /\ \E d \in Latencies, pv \in LoadVoltages, pi \in PulseCurrents :
         LET q == AddCharge(estimated_charge, pi, pulse_settle_time)
         IN /\ clock' = clock + d
            /\ estimated_charge' = q
            /\ integrated' = Append(integrated, <<pi, pulse_settle_time>>)
            /\ IF ResistanceRaises(pi)
                 THEN /\ failed' = TRUE
                      /\ pc' = "d280"
                      /\ UNCHANGED samples
                 ELSE /\ samples' = Append(samples,
                            PulseSample(pv, pi, q, Resistance(voltage, pv, pi)))
                      /\ pc' = "d251"
                      /\ UNCHANGED failed
    /\ UNCHANGED <<orch, psu, load, locals_bound, times, load_writes, meas,
                   file, outcome, exc>>

\* variant of d251: the load is left at the pulse rate
d251_NoRestore ==
    /\ pc = "d251"
    /\ last_sample_time' = clock
    /\ pc' = "d258"
    /\ UNCHANGED <<orch, clock, psu, load, failed, locals_bound, start_time,
                   last_save_time, last_pulse_time, samples, estimated_charge,
                   integrated, load_writes, meas, file, outcome, exc>>

\* lines 251-254: back to the nominal rate; last_sample_time = time.time()
d251 ==
    /\ pc = "d251"
    /\ load_current' = discharge_current
    /\ load_writes' = Append(load_writes, "set_source_current")
    /\ last_sample_time' = clock
    /\ pc' = "d258"
    /\ UNCHANGED <<orch, clock, psu, load_on, failed, locals_bound, start_time,
                   last_save_time, last_pulse_time, samples, estimated_charge,
                   integrated, meas, file, outcome, exc>>

\* lines 258-260: periodic save
d258 ==
    /\ pc = "d258"
    /\ IF SaveDue
         THEN file' = log_to_file(samples) /\ last_save_time' = clock
         ELSE UNCHANGED <<file, last_save_time>>
    /\ pc' = "d265"
    /\ UNCHANGED <<orch, clock, psu, load, failed, locals_bound, start_time,
                   last_sample_time, last_pulse_time, samples,
                   estimated_charge, integrated, load_writes, meas, outcome, exc>>

RECURSIVE SumVoltage(_)
\* sum([sample['voltage'] for sample in ...])
SumVoltage(smp) ==
    IF smp = <<>> THEN 0 ELSE smp[1].voltage + SumVoltage(Tail(smp))

\* samples[-num_samples_required:]
LastN(smp, n) ==
    IF Len(smp) <= n THEN smp ELSE SubSeq(smp, Len(smp) - n + 1, Len(smp))

\* line 265: the mean of the window is below the termination voltage
\* (sum / n < limit, written without the division)
DischargeCutoff(smp) ==
    /\ Len(smp) >= num_samples_required
    /\ SumVoltage(LastN(smp, num_samples_required))
         < discharge_termination_voltage * num_samples_required

\* lines 264-267
d265 ==
    /\ pc = "d265"
    /\ IF DischargeCutoff(samples)
         THEN outcome' = "cutoff_voltage" /\ pc' = "d280"
         ELSE outcome' = outcome /\ pc' = "d270"
    /\ UNCHANGED <<orch, clock, psu, load, failed, locals_bound, times,
                   samples, estimated_charge, integrated, load_writes, meas, file, exc>>

\* lines 270-272
d270 ==
    /\ pc = "d270"
    /\ clock' = SleepDelay
    /\ pc' = "d192"
    /\ UNCHANGED <<orch, psu, load, failed, locals_bound, times, samples,
                   estimated_charge, integrated, load_writes, meas, file, outcome, exc>>

\* variant of d280: the finally block leaves the load input as it is
d280_NoDisable ==
    /\ pc = "d280"
    /\ pc' = "d288"
    /\ UNCHANGED <<orch, clock, psu, load, failed, locals_bound, times,
                   samples, estimated_charge, integrated, load_writes, meas,
                   file, outcome, exc>>

\* line 280 (finally): load.set_source_state(False)
d280 ==
    /\ pc = "d280"
    /\ load_on' = FALSE
    /\ load_writes' = Append(load_writes, "set_source_state(False)")
    /\ pc' = "d288"
    /\ UNCHANGED <<orch, clock, psu, load_current, failed, locals_bound, times,
                   samples, estimated_charge, integrated, meas, file, outcome,
                   exc>>

\* line 288 (finally): log_to_file(samples, fname); IndexError on an empty
\* list leaves the function from inside the finally block
d288 ==
    /\ pc = "d288"
    /\ IF log_raises(samples)
         THEN /\ escaped' = "IndexError"
              /\ pending' = "none"
              /\ pc' = "raised"
              /\ UNCHANGED file
         ELSE /\ file' = log_to_file(samples)
              /\ LeaveFinally
    /\ UNCHANGED <<orch, clock, psu, load, failed, locals_bound, times,
                   samples, estimated_charge, integrated, load_writes, meas, outcome, faults,
                   interrupt_at>>

discharge_cycle ==
    \/ d185 \/ d186 \/ d187 \/ d192 \/ d217 \/ d222 \/ d225 \/ d228 \/ d251
    \/ d258 \/ d265 \/ d270 \/ d280 \/ d288

\* ------------------------------------------ exceptions from the outside
\* Positions whose next statement is an instrument call.
ChargeCalls == {"c72", "c73", "c74", "c75", "c77", "c79", "c95", "c141", "c143"}
DischargeCalls == {"d185", "d186", "d192", "d222", "d228", "d251"}
FinallyCalls == {"c153", "c155", "d280"}
ShutdownCalls == {"o_off1", "o_off2"}

\* An instrument call raises (communication failure).  Inside a try block:
\* lines 148-151 / 275-278 set failed and the finally block follows.  Inside
\* a finally block, or in the module level code, nothing catches it.
InstrumentFault ==
    /\ \/ /\ pc \in ChargeCalls \cup DischargeCalls
          /\ failed' = TRUE
          /\ pc' = IF pc \in ChargeCalls THEN "c153" ELSE "d280"
          /\ last_sample_time' =
                IF pc \in {"c95", "d192"} THEN clock ELSE last_sample_time
          /\ UNCHANGED <<opc, escaped, pending>>
       \/ /\ pc \in FinallyCalls
          /\ pc' = "raised"
          /\ escaped' = "Exception"
          /\ pending' = "none"
          /\ UNCHANGED <<opc, failed, last_sample_time>>
       \/ /\ pc = "idle" /\ opc \in ShutdownCalls
          /\ opc' = "o_crashed"
          /\ escaped' = "Exception"
          /\ UNCHANGED <<pc, failed, last_sample_time, pending>>
    /\ faults' = Append(faults, IF pc = "idle" THEN opc ELSE pc)
    /\ UNCHANGED <<cycle, phases, clock, psu, load, locals_bound, start_time,
                   last_save_time, last_pulse_time, samples, estimated_charge, integrated, load_writes,
                   meas, file, outcome, interrupt_at>>

\* The operator interrupts the program (KeyboardInterrupt, which `except
\* Exception` does not catch).  Inside a try block the finally block runs
\* and the interrupt is raised again after it; inside a finally block, or in
\* the module level code, it propagates at once.
Interrupt ==
    /\ pending = "none" /\ escaped = "none"
    /\ \/ /\ pc \in ChargeTry \cup DischargeTry
          /\ pending' = "KeyboardInterrupt"
          /\ pc' = IF pc \in ChargeTry THEN "c153" ELSE "d280"
          /\ UNCHANGED <<opc, escaped>>
       \/ /\ pc \in ChargeFinally \cup DischargeFinally
          /\ pc' = "raised"
          /\ escaped' = "KeyboardInterrupt"
          /\ UNCHANGED <<opc, pending>>
       \/ /\ pc = "idle" /\ opc \notin {"o_exit", "o_crashed"}
          /\ opc' = "o_crashed"
          /\ escaped' = "KeyboardInterrupt"
          /\ UNCHANGED <<pc, pending>>
    /\ interrupt_at' = (IF pc = "idle" THEN opc ELSE pc)
    /\ UNCHANGED <<cycle, phases, clock, psu, load, failed, locals_bound,
                   times, samples, estimated_charge, integrated, load_writes, meas, file, outcome,
                   faults>>

\* ------------------------------------------------------------ orchestrator
\* The locals of a controller that is not running.
NoLocals ==
    /\ failed' = FALSE /\ locals_bound' = FALSE
    /\ start_time' = 0 /\ last_sample_time' = 0
    /\ last_save_time' = 0 /\ last_pulse_time' = 0
    /\ samples' = <<>> /\ estimated_charge' = 0 /\ integrated' = <<>>
    /\ load_writes' = <<>>
    /\ voltage' = 0 /\ current' = 0
    /\ outcome' = "none" /\ faults' = <<>>

\* lines 164 / 291: return not failed
ReturnValue == ~failed

\* lines 325-328: next iteration of the for loop; charge_cycle is entered
\* with a new file name (line 63: failed = False)
ChargeCall ==
    /\ opc = "o_for" /\ pc = "idle"
    /\ cycle <= number_of_cycles
    /\ opc' = "o_charge"
    /\ phases' = Append(phases, "charge")
    /\ pc' = "c72"
    /\ NoLocals
    /\ file' = NoFile
    /\ clock' = 0
    /\ UNCHANGED <<cycle, psu, load, pending, escaped, interrupt_at>>

\* line 325: the range is exhausted
LoopDone ==
    /\ opc = "o_for" /\ pc = "idle"
    /\ cycle > number_of_cycles
    /\ opc' = "o_off1"
    /\ UNCHANGED <<cycle, phases, pc, clock, psu, load, failed, locals_bound,
                   times, samples, estimated_charge, integrated, load_writes, meas, file, outcome, exc>>

\* variant of ChargeReturn: the result of charge_cycle is not tested
ChargeReturn_Ignore ==
    /\ opc = "o_charge" /\ pc = "ret"
    /\ opc' = "o_rest_cd"
    /\ phases' = Append(phases, IF ReturnValue THEN "ok" ELSE "fail")
    /\ pc' = "idle"
    /\ NoLocals
    /\ clock' = 0 /\ file' = NoFile
    /\ UNCHANGED <<cycle, psu, load, pending, escaped, interrupt_at>>

\* lines 328-330: charge_cycle returned
ChargeReturn ==
    /\ opc = "o_charge" /\ pc = "ret"
    /\ IF ReturnValue
         THEN opc' = "o_rest_cd" /\ phases' = Append(phases, "ok")
         ELSE opc' = "o_off1" /\ phases' = Append(phases, "fail")
    /\ pc' = "idle"
    /\ NoLocals
    /\ clock' = 0 /\ file' = NoFile
    /\ UNCHANGED <<cycle, psu, load, pending, escaped, interrupt_at>>

\* line 333: time.sleep(rest_charge_to_discharge)
RestChargeToDischarge ==
    /\ opc = "o_rest_cd" /\ pc = "idle"
    /\ clock' = clock + rest_charge_to_discharge
    /\ phases' = Append(phases, "rest")
    /\ opc' = "o_dis"
    /\ UNCHANGED <<cycle, pc, psu, load, failed, locals_bound, times, samples,
                   estimated_charge, integrated, load_writes, meas, file, outcome, exc>>

\* line 336 and lines 167-177: discharge_cycle is entered with a new file
\* name and initialises its locals before its try block
DischargeCall ==
    /\ opc = "o_dis" /\ pc = "idle"
    /\ opc' = "o_discharge"
    /\ phases' = Append(phases, "discharge")
    /\ pc' = "d185"
    /\ failed' = FALSE /\ locals_bound' = TRUE
    /\ clock' = 0
    /\ start_time' = clock' /\ last_sample_time' = clock'
    /\ last_save_time' = clock' /\ last_pulse_time' = clock'
    /\ samples' = <<>> /\ estimated_charge' = 0 /\ integrated' = <<>>
    /\ load_writes' = <<>>
    /\ outcome' = "none" /\ faults' = <<>>
    /\ file' = NoFile
    /\ UNCHANGED <<cycle, psu, load, meas, pending, escaped, interrupt_at>>

\* lines 336-338: discharge_cycle returned
DischargeReturn ==
    /\ opc = "o_discharge" /\ pc = "ret"
    /\ IF ReturnValue
         THEN opc' = "o_rest_dc" /\ phases' = Append(phases, "ok")
         ELSE opc' = "o_off1" /\ phases' = Append(phases, "fail")
    /\ pc' = "idle"
    /\ NoLocals
    /\ clock' = 0 /\ file' = NoFile
    /\ UNCHANGED <<cycle, psu, load, pending, escaped, interrupt_at>>

\* line 341: time.sleep(rest_discharge_to_charge); the loop variable advances
RestDischargeToCharge ==
    /\ opc = "o_rest_dc" /\ pc = "idle"
    /\ clock' = clock + rest_discharge_to_charge
    /\ phases' = Append(phases, "rest")
    /\ cycle' = cycle + 1
    /\ opc' = "o_for"
    /\ UNCHANGED <<pc, psu, load, failed, locals_bound, times, samples,
                   estimated_charge, integrated, load_writes, meas, file, outcome, exc>>

\* line 344: psu.CH1.set_output(False)
FinalOff1 ==
    /\ opc = "o_off1" /\ pc = "idle"
    /\ ch1_out' = FALSE
    /\ opc' = "o_off2"
    /\ UNCHANGED <<cycle, phases, pc, clock, ch1_voltage, ch1_current, ch2_out,
                   ch2_voltage, ch2_current, load, failed, locals_bound, times,
                   samples, estimated_charge, integrated, load_writes, meas, file, outcome, exc>>

\* variant of FinalOff2: the program exits without switching CH2 off
FinalOff2_Skip ==
    /\ opc = "o_off2" /\ pc = "idle"
    /\ opc' = "o_exit"
    /\ UNCHANGED <<cycle, phases, pc, clock, psu, load, failed, locals_bound,
                   times, samples, estimated_charge, integrated, load_writes, meas, file, outcome, exc>>

\* line 345: psu.CH2.set_output(False); the with block ends, the program exits
FinalOff2 ==
    /\ opc = "o_off2" /\ pc = "idle"
    /\ ch2_out' = FALSE
    /\ opc' = "o_exit"
    /\ UNCHANGED <<cycle, phases, pc, clock, ch1_out, ch1_voltage, ch1_current,
                   ch2_voltage, ch2_current, load, failed, locals_bound, times,
                   samples, estimated_charge, integrated, load_writes, meas, file, outcome, exc>>

\* An exception leaves charge_cycle or discharge_cycle: nothing at module
\* level catches it, the with block (line 294) closes the connections and
\* the program ends with lines 343-345 not run.
Propagate ==
    /\ pc = "raised"
    /\ opc' = "o_crashed"
    /\ pc' = "gone"
    /\ UNCHANGED <<cycle, phases, clock, psu, load, failed, locals_bound,
                   times, samples, estimated_charge, integrated, load_writes, meas, file, outcome, exc>>

Next ==
    \/ charge_cycle
    \/ discharge_cycle
    \/ InstrumentFault
    \/ Interrupt
    \/ ChargeCall \/ LoopDone \/ ChargeReturn \/ RestChargeToDischarge
    \/ DischargeCall \/ DischargeReturn \/ RestDischargeToCharge
    \/ FinalOff1 \/ FinalOff2 \/ Propagate

Spec == Init /\ [][Next]_vars

\* The program keeps executing: a single thread that never waits for input
\* once the run has started.
FairSpec == Spec /\ WF_vars(Next)

\* The same program in an environment in which no instrument call raises and
\* the operator does not interrupt.
QuietNext ==
    \/ charge_cycle
    \/ discharge_cycle
    \/ ChargeCall \/ LoopDone \/ ChargeReturn \/ RestChargeToDischarge
    \/ DischargeCall \/ DischargeReturn \/ RestDischargeToCharge
    \/ FinalOff1 \/ FinalOff2

QuietSpec == Init /\ [][QuietNext]_vars /\ WF_vars(QuietNext)

\* =============================================================== properties
\* Control has left the controller: it returned, or an exception left it.
Left == pc \in {"ret", "raised"}

Last(smp) == smp[Len(smp)]

\* The destination file holds a row for every sample collected so far.
FileHasAll ==
    /\ file.written
    /\ file.rows = [k \in 1..Len(samples) |-> writerow(file.header, samples[k])]

AllOff == ~ch1_out /\ ~ch2_out /\ ~load_on

Aborted == Len(phases) > 0 /\ Last(phases) = "fail"

\* C1: when the only exception of a charge_cycle call is raised by the
\* measurement of the sampling loop (any iteration, the first included), then
\* on leaving charge_cycle the relay output CH1 is off, the charge channel CH2
\* is shut down (its current set to 0) and the file holds every sample
\* collected so far.
C1_ChargeFaultFinalized ==
    (opc = "o_charge" /\ Left /\ faults = <<"c95">> /\ interrupt_at = "none")
        => (~ch1_out /\ ch2_current = 0 /\ FileHasAll)

\* C2: when the only exception of a discharge_cycle call is raised by an
\* instrument call of the sampling loop or of the pulse, then on leaving
\* discharge_cycle the load input is disabled and the file holds every sample
\* collected so far.
C2_DischargeFaultFinalized ==
    (/\ opc = "o_discharge" /\ Left
     /\ Len(faults) = 1 /\ faults[1] \in {"d192", "d222", "d228", "d251"}
     /\ interrupt_at = "none")
        => (~load_on /\ FileHasAll)

\* C3: a controller call in which one instrument call raised (in the setup,
\* the loop, a pulse or the shutdown commands) is never left by an
\* exception: it returns, and it returns False.
C3_FaultNeverEscapes ==
    (/\ opc \in {"o_charge", "o_discharge"} /\ Left
     /\ Len(faults) = 1 /\ interrupt_at = "none")
        => (pc = "ret" /\ ~ReturnValue)

\* Positions of a controller at which one of its outputs has been enabled.
LiveSites ==
    (ChargeTry \ {"c72", "c73", "c74", "c75", "c77"}) \cup ChargeFinally
    \cup (DischargeTry \ {"d185", "d186"}) \cup DischargeFinally

\* C4: when the operator interrupts a controller that has enabled an output
\* (no instrument call raising), the run ends with every output disabled and
\* with the samples collected so far in the file.
C4_InterruptFinalized ==
    (opc = "o_crashed" /\ interrupt_at \in LiveSites /\ faults = <<>>)
        => (AllOff /\ (Len(samples) > 0 => FileHasAll))

\* C5: when a phase has reported failure the orchestrator advances no
\* further, and when the program then ends without an exception leaving it,
\* the final shutdown has run: CH1, CH2 and the load input are all off.
C5_AbortShutsDown ==
    /\ Aborted => opc \in {"o_off1", "o_off2", "o_exit", "o_crashed"}
    /\ (Aborted /\ opc \in {"o_exit", "o_crashed"} /\ escaped = "none")
          => (opc = "o_exit" /\ AllOff)

C5_Witness ==
    /\ opc = "o_exit" /\ Aborted /\ cycle = number_of_cycles
    /\ phases[Len(phases) - 1] = "discharge"

\* One repetition of the orchestrator's loop, as recorded in phases.
PhasePattern == <<"charge", "ok", "rest", "discharge", "ok", "rest">>
Expected(i) == PhasePattern[((i - 1) % Len(PhasePattern)) + 1]
FullRun == number_of_cycles * Len(PhasePattern)

\* C6: the phases run are charge, rest, discharge, rest, repeated, each
\* started only after the one before it returned success; nothing follows a
\* failed phase; and a run that ends normally without a failure has made
\* exactly number_of_cycles repetitions.
C6_PhaseOrder ==
    /\ Len(phases) <= FullRun
    /\ \A i \in 1..Len(phases) :
          \/ phases[i] = Expected(i)
          \/ i = Len(phases) /\ phases[i] = "fail" /\ Expected(i) = "ok"
    /\ opc = "o_exit" => (Aborted \/ Len(phases) = FullRun)
    /\ (opc = "o_off1" /\ ~Aborted) => Len(phases) = FullRun

C6_Witness == opc = "o_exit" /\ Len(phases) = FullRun

\* The plain `discharge` samples of a series.
IsPlain(sample) == sample.status = "discharge"
PlainSamples(smp) == SelectSeq(smp, IsPlain)

\* The mean of the num_samples_required samples ending at index k is below
\* the termination voltage.
WindowBelow(smp, k) ==
    /\ k >= num_samples_required
    /\ SumVoltage(SubSeq(smp, k - num_samples_required + 1, k))
         < discharge_termination_voltage * num_samples_required

\* C7: the discharge loop ends on voltage exactly when the mean of the last
\* num_samples_required plain discharge samples is below the termination
\* voltage; pulse samples are not part of the window.
C7_PlainWindow ==
    opc = "o_discharge" =>
        LET plain == PlainSamples(samples)
        IN /\ outcome = "cutoff_voltage" => WindowBelow(plain, Len(plain))
           /\ pc = "d270" => ~WindowBelow(plain, Len(plain))

\* C8: the discharge loop ends on voltage at the first plain sample whose
\* trailing window mean is below the termination voltage and at no other:
\* not at an earlier sample because of one low sample, and never before
\* num_samples_required samples.
C8_FirstCrossing ==
    (opc = "o_discharge" /\ outcome = "cutoff_voltage") =>
        LET plain == PlainSamples(samples)
        IN /\ Len(plain) >= num_samples_required
           /\ \A k \in 1..Len(plain) : WindowBelow(plain, k) <=> k = Len(plain)

\* C9: the charge loop ends at the first sample whose current is below the
\* termination current: that sample is recorded, none follows it, the cutoff
\* message is the one printed (also when the ceiling has passed as well),
\* and without a fault or interrupt the call returns True.
C9_CurrentCutoff ==
    (opc = "o_charge" /\ locals_bound) =>
        /\ \A k \in 1..(Len(samples) - 1) :
              samples[k].current >= charge_termination_current
        /\ (pc \in {"c95", "c130", "c136"} /\ Len(samples) > 0)
              => Last(samples).current >= charge_termination_current
        /\ outcome = "cutoff_current"
              => (/\ Len(samples) > 0
                  /\ Last(samples).current < charge_termination_current)
        /\ outcome = "timeout"
              => Last(samples).current >= charge_termination_current
        /\ (/\ Len(samples) > 0
            /\ Last(samples).current < charge_termination_current
            /\ pc # "c120" /\ faults = <<>> /\ interrupt_at = "none")
              => outcome = "cutoff_current"
        /\ (/\ outcome = "cutoff_current" /\ Left
            /\ faults = <<>> /\ interrupt_at = "none")
              => (pc = "ret" /\ ReturnValue)

C9_Witness ==
    /\ opc = "o_charge" /\ pc = "ret" /\ ReturnValue
    /\ outcome = "cutoff_current" /\ ChargeTimedOut
    /\ Len(samples) >= 2

\* The charge loop has been left in the normal way or is being finalized.
ChargeLoopLeft == pc \in {"c141", "c143", "c153", "c155", "c158", "ret"}

C10_Boundary ==
    (opc = "o_charge" /\ locals_bound) =>
        /\ pc \in {"c130", "c136"} => clock - start_time <= charge_timeout
        /\ \A k \in 1..(Len(samples) - 1) : samples[k].time <= charge_timeout
        /\ outcome = "timeout"
              => (/\ clock - start_time > charge_timeout
                  /\ Last(samples).time <= charge_timeout + 1)
        /\ (/\ ChargeLoopLeft /\ faults = <<>> /\ interrupt_at = "none"
            /\ \A k \in 1..Len(samples) :
                  samples[k].current >= charge_termination_current)
              => outcome = "timeout"

\* C10: the charge loop always ends; it goes on only while the elapsed time
\* is within the ceiling, so every sample but the last is taken within the
\* ceiling; with no current below the cutoff and no fault it ends on the
\* timeout, with the elapsed time above the ceiling and the last sample
\* taken at most one sampling interval (1 s) after the ceiling.
C10_TimeoutBoundary ==
    /\ []C10_Boundary
    /\ (pc \in ChargeLoop) ~> (pc \notin ChargeLoop)

C10_Witness ==
    /\ opc = "o_charge" /\ pc = "ret" /\ ReturnValue
    /\ outcome = "timeout"
    /\ Last(samples).time = charge_timeout + 1

IsPulse(sample) == sample.status = "discharge_pulse"

\* Two quotients <<numerator, denominator>> have the same value.
SameRatio(r, s) == r[2] # 0 /\ s[2] # 0 /\ r[1] * s[2] = s[1] * r[2]

\* C11: the resistance of every discharge_pulse sample is
\* (V_nominal - V_pulse) / (I_pulse - I_nominal), V_nominal and I_nominal
\* being the voltage and the current of the plain sample before it (the most
\* recent one) and V_pulse, I_pulse the values of the pulse sample itself.
C11_ResistanceFromMeasuredBaseline ==
    \A k \in 1..Len(samples) :
        IsPulse(samples[k]) =>
            /\ k > 1
            /\ IsPlain(samples[k - 1])
            /\ SameRatio(samples[k].resistance,
                         <<samples[k - 1].voltage - samples[k].voltage,
                           samples[k].current - samples[k - 1].current>>)

\* C12: a pulse whose measured current makes the denominator of line 238
\* zero does not abort the loop and does not fail the cycle: the step that
\* adds such a pulse to the charge estimate goes on to line 251, which
\* restores the nominal current, with `failed` still false and the pulse
\* sample recorded.
C12_ZeroDenominatorIsolated ==
    [][(/\ pc = "d228"
        /\ Len(integrated') = Len(integrated) + 1
        /\ ResistanceRaises(integrated'[Len(integrated')][1]))
       => (/\ pc' = "d251"
           /\ ~failed'
           /\ Len(samples') = Len(samples) + 1)]_vars

\* C13: in the samples of one cycle the time field strictly increases from
\* each sample to the next (plain to pulse and pulse to plain included).
C13_TimeStrictlyIncreases ==
    \A k \in 1..(Len(samples) - 1) : samples[k].time < samples[k + 1].time

\* Every term of the charge estimate belongs to a plain sample of one and
\* the same measured current.
ConstantCurrent ==
    /\ samples # <<>>
    /\ Len(integrated) = Len(samples)
    /\ \A k \in 1..Len(samples) :
           ~IsPulse(samples[k]) /\ samples[k].current = samples[1].current

\* C14: the accumulator is zero when a cycle has taken no sample yet, and in
\* a cycle whose measured currents all equal one value I (no pulse) the
\* accumulated charge after each sample is I times the time from the start
\* marker to that sample, however many samples that time holds.
C14_ConstantCurrentCharge ==
    /\ (locals_bound /\ integrated = <<>>) => estimated_charge = 0
    /\ ConstantCurrent =>
           estimated_charge = samples[1].current * Last(samples).time

\* a discharge at a steady 1, sampled less often than once a second
C14_Witness ==
    /\ ConstantCurrent
    /\ IsPlain(samples[1]) /\ samples[1].current = 1
    /\ Len(samples) >= 3
    /\ Last(samples).time > Len(samples)
    /\ estimated_charge = Last(samples).time

\* The samples the destination file does not hold.
Unsaved == SubSeq(samples, Len(file.rows) + 1, Len(samples))

\* C15: while a loop runs, the samples not yet in the file span at most
\* save_interval of cycle time, the iteration in progress apart: right after
\* the periodic save test the oldest of them is at most save_interval old,
\* and at the start of every iteration they lie within save_interval of each
\* other.  Pulse iterations are included.
C15_UnsavedSpan ==
    /\ (pc \in {"c136", "d265", "d270"} /\ Unsaved # <<>>)
          => clock - (start_time + Unsaved[1].time) <= save_interval
    /\ (pc \in {"c95", "d192"} /\ Unsaved # <<>>)
          => Last(samples).time - Unsaved[1].time <= save_interval

\* after a pulse and the save test that follows it, the plain sample and the
\* pulse sample are unsaved and the file holds the earlier ones
C15_Witness ==
    /\ pc = "d265" /\ file.written
    /\ Len(Unsaved) >= 2 /\ IsPulse(Last(samples))
    /\ clock - (start_time + Unsaved[1].time) >= pulse_settle_time

RECURSIVE SumShares(_, _)
\* The sum of current * dt over the first k terms of the charge estimate.
SumShares(terms, k) ==
    IF k = 0 THEN 0 ELSE terms[k][1] * terms[k][2] + SumShares(terms, k - 1)

\* C16: the charge field of every recorded sample is the sum of current * dt
\* over the samples of the cycle up to that sample, itself included (charge
\* and discharge cycle, plain and pulse samples); so the field never
\* decreases along the sequence.
C16_ChargeFieldInclusive ==
    /\ \A k \in 1..Len(samples) :
           samples[k].charge = SumShares(integrated, k)
    /\ \A k \in 1..(Len(samples) - 1) :
           samples[k].charge <= samples[k + 1].charge

\* charge_cycle is about to return after its loop ended on the ceiling.
TimedOutReturn == opc = "o_charge" /\ pc = "ret" /\ outcome = "timeout"

\* C17: a charge that ends on the safety ceiling is not a failure.  In a run
\* without instrument faults and interrupts: the message of the ceiling is
\* printed only when the cutoff test did not hold, charge_cycle then returns
\* True, the orchestrator's next step is the rest, and the discharge phase
\* is started.
C17_TimeoutIsSuccess ==
    /\ [](outcome = "timeout" => (opc = "o_charge" /\ ~ChargeCutoff))
    /\ [](TimedOutReturn => ReturnValue)
    /\ [][TimedOutReturn => (opc' = "o_rest_cd" /\ Last(phases') = "ok")]_vars
    /\ TimedOutReturn ~> (opc = "o_discharge")

\* the second charge of a run returns after the ceiling
C17_Witness ==
    /\ TimedOutReturn /\ ReturnValue
    /\ cycle = number_of_cycles
    /\ file.written /\ ~ch1_out

InDischarge == DischargeTry \cup DischargeFinally

\* A pulse starts: the test of line 217 succeeds.
PulseStarts == pc = "d217" /\ pc' = "d222"

\* The test of line 217 as the program applies it: last_pulse_time is the
\* start of the cycle until the first pulse and from then on the start of the
\* latest pulse; a pulse starts only when more than pulse_spacing has passed
\* since that time; the iteration whose test finds the spacing exceeded fires
\* the pulse; and a pulse follows directly on the plain sample of its
\* iteration.
PulseGating ==
    /\ [][PulseStarts =>
            /\ clock - last_pulse_time > pulse_spacing
            /\ last_pulse_time' = clock
            /\ IsPlain(Last(samples))
            /\ Last(samples).time = last_sample_time - start_time]_vars
    /\ [][(/\ pc = "d217" /\ clock - last_pulse_time > pulse_spacing
           /\ pc' # pc /\ pending' = pending)
          => PulseStarts]_vars
    /\ [][(/\ pc \in InDischarge /\ pc' \in InDischarge
           /\ last_pulse_time' # last_pulse_time)
          => PulseStarts]_vars
    /\ [](pc = "d185" => last_pulse_time = start_time)
    /\ [](\A k \in 1..Len(samples) :
            IsPulse(samples[k]) => (k > 1 /\ IsPlain(samples[k - 1])))

\* The discharge_pulse samples of the cycle, in order.
PulseSamples(smp) == SelectSeq(smp, IsPulse)

\* C18: a pulse is started only when more than pulse_spacing has passed since
\* the start of the previous pulse (the start of the cycle for the first
\* one), it is fired by the first iteration that finds the spacing exceeded,
\* directly after that iteration's plain sample, and any two consecutive
\* discharge_pulse samples are more than pulse_spacing apart.
C18_PulseSpacing ==
    /\ PulseGating
    /\ [](\A k \in 1..(Len(PulseSamples(samples)) - 1) :
            PulseSamples(samples)[k + 1].time - PulseSamples(samples)[k].time
                > pulse_spacing)

RECURSIVE SumSpans(_, _)
\* The time covered by the first k terms of the charge estimate.
SumSpans(terms, k) ==
    IF k = 0 THEN 0 ELSE terms[k][2] + SumSpans(terms, k - 1)

\* Positions of the discharge loop at which last_sample_time marks the end
\* of the time dealt with so far (outside the pulse block).
MarkerCurrent == pc \in {"d192", "d217", "d258", "d265", "d270"}

\* C19: in discharge_cycle every interval of cycle time is integrated exactly
\* once: the intervals of the terms added to the estimate (the time since the
\* previous marker for a plain sample, the settle time for a pulse) add up
\* to the cycle time that has passed up to the marker, nothing between a
\* plain sample and the end of the pulse after it being left out or counted
\* twice; and a pulse enters with its measured current over the settle time.
C19_IntegratedOnce ==
    /\ (opc = "o_discharge" /\ MarkerCurrent) =>
           SumSpans(integrated, Len(integrated))
               = last_sample_time - start_time
    /\ \A k \in 1..Len(samples) :
           IsPulse(samples[k]) =>
               integrated[k] = <<samples[k].current, pulse_settle_time>>

\* Positions of discharge_cycle between the first set_source_current and the
\* end of the loop at which no pulse is in progress: the load is being
\* enabled, a plain sample is measured, the file is rewritten, the
\* termination is tested, the loop sleeps.
OutsidePulse == {"d186", "d187", "d192", "d217", "d258", "d265", "d270"}

\* C20: the setpoint of the load is the nominal discharge_current whenever
\* discharge_cycle measures a plain sample, rewrites the file or tests the
\* termination (so every pulse that got as far as line 251 has restored it
\* by then), and while nothing has gone wrong in the call it is
\* pulse_discharge_current only between line 222 and line 251 of a pulse.
C20_PulseSetpoint ==
    /\ (opc = "o_discharge" /\ pc \in OutsidePulse)
          => load_current = discharge_current
    /\ (/\ opc = "o_discharge" /\ load_current = pulse_discharge_current
        /\ ~failed /\ faults = <<>> /\ interrupt_at = "none")
          => pc \in {"d225", "d228", "d251"}

\* a pulse has been recorded and the load is back at the nominal rate
C20_Witness ==
    /\ opc = "o_discharge" /\ pc = "d258"
    /\ IsPulse(Last(samples))
    /\ load_on /\ load_current = discharge_current
    /\ Last(samples).current = pulse_discharge_current

\* The sleep that ends an iteration of either loop.
SleepStep ==
    \/ pc = "c136" /\ pc' = "c95"
    \/ pc = "d270" /\ pc' = "d192"

\* A plain sample is appended.
SampleStep == pc \in {"c95", "d192"} /\ Len(samples') = Len(samples) + 1

\* C21: at the end of an iteration that took x seconds since its marker the
\* controller sleeps 1 - x when x < 1 and not at all when x >= 1; in the
\* iteration of a pulse the marker is the end of the pulse; and a plain
\* sample that follows a plain sample is stamped as much later as the clock
\* has moved since the marker, never less than 1 second, which is exactly
\* 1 second when the iteration before it took less than 1 second.
C21_SleepRemainder ==
    /\ [][SleepStep =>
            LET x == clock - last_sample_time
            IN clock' - clock = (IF x < 1 THEN 1 - x ELSE 0)]_vars
    /\ [](pc \in {"d258", "d265", "d270"} /\ IsPulse(Last(samples))
             => last_sample_time = clock)
    /\ [](pc \in {"c95", "d192"} /\ samples # <<>>
             => clock - last_sample_time >= 1)
    /\ [][(SampleStep /\ samples # <<>> /\ ~IsPulse(Last(samples)))
            => Last(samples').time - Last(samples).time
                   = clock - last_sample_time]_vars

\* after a pulse the loop has slept one second from the pulse end, and an
\* earlier iteration that took 2 s was followed at once by the next sample
C21_Witness ==
    /\ pc = "d192" /\ Len(samples) >= 3
    /\ IsPulse(Last(samples))
    /\ clock = last_sample_time + 1
    /\ ~IsPulse(samples[2]) /\ samples[2].time - samples[1].time = 2


\* The commands discharge_cycle writes to the load before its first sample
\* (lines 185-186); set_source_mode of the driver is not among them.
SetupWrites == <<"set_source_current", "set_source_state(True)">>

\* What the specification asks for ahead of the first sample.
SetupWrites_WithMode == <<"set_source_mode">> \o SetupWrites

\* discharge_cycle is about to take its first sample
FirstSampleDue == opc = "o_discharge" /\ pc = "d192" /\ samples = <<>>

\* C22, ordering part: in every state of a discharge_cycle call the enabling
\* command, if written, comes after the command that set the nominal current,
\* and the load input is on only with a current programmed by this program.
EnabledAfterCurrent ==
    /\ \A k \in 1..Len(load_writes) :
         load_writes[k] = "set_source_state(True)"
           => \E j \in 1..(k - 1) : load_writes[j] = "set_source_current"
    /\ load_on => load_current \in {discharge_current, pulse_discharge_current}
    /\ FirstSampleDue => load_writes = SetupWrites /\ load_on
                         /\ load_current = discharge_current

\* C22: before its first sample discharge_cycle has written, in this order,
\* the constant-current mode, the nominal current and the enabling of the
\* input; the input is never enabled before the nominal current is set.
C22_LoadSetupOrder ==
    /\ FirstSampleDue => load_writes = SetupWrites_WithMode
    /\ EnabledAfterCurrent


\* CH2 carries the charge settings of lines 74-75
ChargeConfigured ==
    ch2_voltage = charge_voltage /\ ch2_current = charge_current

\* C23, ordering part: charge_cycle switches CH1 on only with CH2 configured,
\* switches CH2 on only with CH1 on and CH2 configured, and measures only
\* with both outputs on.
ChargeSetupOrder ==
    /\ [][(opc = "o_charge" /\ ~ch1_out /\ ch1_out') => ChargeConfigured]_vars
    /\ [][(opc = "o_charge" /\ pc = "c79" /\ pc' = "c80")
            => (ChargeConfigured /\ ch1_out /\ ch2_out')]_vars
    /\ [][(opc = "o_charge" /\ SampleStep) => (ch1_out /\ ch2_out)]_vars
    /\ [](opc = "o_charge" /\ samples # <<>> /\ pc \in ChargeTry
            => pc \notin {"c72", "c73", "c74", "c75", "c77", "c78", "c79"})

\* C23: charge_cycle sets the voltage and the current limit of CH2 before it
\* enables an output, energizes the relay CH1 before it enables CH2 and takes
\* no sample before CH2 is enabled; when it finishes, on any path, CH1 is off
\* and the output of CH2 is disabled.
C23_ChargeSetupAndShutdown ==
    /\ ChargeSetupOrder
    /\ [](opc = "o_charge" /\ Left => ~ch1_out /\ ~ch2_out)


\* the orchestrator enters a controller (lines 327 / 336)
ChargeStarts == opc = "o_for" /\ opc' = "o_charge"
DischargeStarts == opc = "o_dis" /\ opc' = "o_discharge"

\* C24: over a whole run, with faults of instrument calls and interrupts at
\* any position, the load input is never on while the relay channel CH1 is
\* on; discharge_cycle is entered only with CH1 off and charge_cycle only
\* with the load input off.
C24_LoadAndRelayExclusive ==
    /\ [](~(load_on /\ ch1_out))
    /\ [][DischargeStarts => ~ch1_out]_vars
    /\ [][ChargeStarts => ~load_on]_vars
    /\ [](opc = "o_charge" => ~load_on)
    /\ [](opc = "o_discharge" => ~ch1_out)

\* the relay is on in the charge that follows a complete discharge
C24_Witness ==
    /\ opc = "o_charge" /\ cycle = number_of_cycles
    /\ ch1_out /\ ~load_on /\ samples # <<>>
    /\ \E k \in 1..Len(phases) : phases[k] = "discharge"

====
